---- MODULE Spec2Model ----
(***************************************************************************)
(* Tenant-aware API gateway and tenant provisioning control plane.         *)
(*                                                                         *)
(* Part 1: the sliding-window rate limiter (api-gateway/middlewares/       *)
(*         rate_limit.py), its in-memory and Redis backed variants.        *)
(* Part 2: the gateway middleware pipeline (api-gateway/main.py and the    *)
(*         middlewares).                                                   *)
(* Part 3: tenant creation and database provisioning                       *)
(*         (tenant-resolver-service).                                      *)
(***************************************************************************)
EXTENDS Integers, Sequences, FiniteSets, TLC

(***************************************************************************)
(* Bounds of the model.                                                    *)
(***************************************************************************)
MaxTime == 4
MaxCalls == 5
MaxCeiling == 3
ShortWindow == 3
MaxInstanceCalls == 2
MaxRedirects == 1

(* InMemoryRateLimiter.__init__(window_seconds = 60) *)
DefaultWindowSeconds == 60

Clients == {"ip1", "ip2"}
Instances == {"gw1", "gw2"}

(* Clock readings time.time() can return in a run: a few consecutive       *)
(* instants, and one instant just past a whole default window.             *)
Times == (0 .. MaxTime) \cup {DefaultWindowSeconds + 1}
Windows == {ShortWindow, DefaultWindowSeconds}
Ceilings == 1 .. MaxCeiling

VARIABLES
    now,             \* last value read from time.time()
    window_seconds,  \* rate_limiter.window_seconds
    max_requests,    \* RateLimitMiddleware.rate_limit
    requests,        \* InMemoryRateLimiter.requests: client -> list of timestamps
    store,           \* Redis: client -> sorted set under key rate_limit:<client>
    calls,           \* log of the sequential check_rate_limit calls and results
    inst,            \* gateway instances running RedisRateLimiter.check_rate_limit
    user_middleware, \* app.user_middleware, first entry outermost
    services,        \* ServiceRegistry._services
    limiter,         \* which limiter RateLimitMiddleware.__init__ chose
    startup,         \* what RateLimitMiddleware.__init__ found when the gateway started
    gw,              \* the request in the gateway and where it stands
    tenant_resolver_url, \* settings.TENANT_RESOLVER_SERVICE_URL: who answers lookups
    lookups,         \* history: (subdomain, tenant id) of every successful lookup
    registry_out,    \* what the last get_service_url / list_services returned
    registered,      \* history: names registered and not unregistered since
    last_address,    \* history: the address of the latest register of each such name
    tenants,         \* Tenant Directory: rows of the tenants table
    backend,         \* PostgreSQL server: databases, roles, grants
    creq,            \* create-tenant requests and where each stands
    bus              \* events published on the tenant_events exchange

rlVars == <<now, window_seconds, max_requests, requests, store, calls, inst>>
gwFixed == <<user_middleware, limiter, startup, tenant_resolver_url>>
regVars == <<services, registry_out, registered, last_address>>
gwVars == <<gwFixed, regVars, lookups, gw>>
tdVars == <<tenants, backend, creq, bus>>
vars == <<rlVars, gwVars, tdVars>>

(***************************************************************************)
(* Part 1.  Rate limiter                                                   *)
(***************************************************************************)

(* Mutant: an instant exactly one window old is kept (>= for >). *)
DropAtOrBefore_KeepsBoundary(client_requests, window_start) ==
    SelectSeq(client_requests, LAMBDA ts : ts >= window_start)

(* client_requests = [ts for ts in client_requests if ts > window_start] *)
DropAtOrBefore(client_requests, window_start) ==
    SelectSeq(client_requests, LAMBDA ts : ts > window_start)

(* Mutant: the ceiling test is off by one (> for >=). *)
InMemoryCheck_OffByOne(client_requests, current_time, window, ceiling) ==
    LET window_start == current_time - window
        kept == SelectSeq(client_requests, LAMBDA ts : ts > window_start)
    IN  IF Len(kept) > ceiling
        THEN [requests |-> kept, allowed |-> FALSE, remaining |-> 0]
        ELSE [requests |-> Append(kept, current_time),
              allowed |-> TRUE,
              remaining |-> ceiling - (Len(kept) + 1)]

(* Mutant: a denied call is recorded as well. *)
InMemoryCheck_RecordsDenied(client_requests, current_time, window, ceiling) ==
    LET window_start == current_time - window
        kept == SelectSeq(client_requests, LAMBDA ts : ts > window_start)
    IN  IF Len(kept) >= ceiling
        THEN [requests |-> Append(kept, current_time),
              allowed |-> FALSE, remaining |-> 0]
        ELSE [requests |-> Append(kept, current_time),
              allowed |-> TRUE,
              remaining |-> ceiling - (Len(kept) + 1)]

(* InMemoryRateLimiter.check_rate_limit, as a function of the client's list *)
InMemoryCheck(client_requests, current_time, window, ceiling) ==
    LET window_start == current_time - window
        kept == DropAtOrBefore(client_requests, window_start)
    IN  IF Len(kept) >= ceiling
        THEN [requests |-> kept, allowed |-> FALSE, remaining |-> 0]
        ELSE [requests |-> Append(kept, current_time),
              allowed |-> TRUE,
              remaining |-> ceiling - (Len(kept) + 1)]

(* ---- Redis commands on one key ---------------------------------------- *)
(* A key is a sorted set (member -> score) with an optional expiry instant. *)
(* expire_at holds the expiry instant, or nothing when no TTL is set. *)
EmptyKey == [members |-> {}, expire_at |-> {}]

(* A key whose TTL has run out is gone when it is next touched. *)
Live(key, t) ==
    IF \E e \in key.expire_at : t >= e THEN EmptyKey ELSE key

(* ZREMRANGEBYSCORE key lo hi; a sorted set left empty is deleted *)
ZRemRangeByScore(key, lo, hi) ==
    LET left == {m \in key.members : ~(lo <= m.score /\ m.score <= hi)}
    IN  IF left = {} THEN EmptyKey ELSE [key EXCEPT !.members = left]

ZCard(key) == Cardinality(key.members)

(* ZADD key score member: a member already present only has its score set *)
ZAdd(key, member, score) ==
    [key EXCEPT !.members =
        {m \in key.members : m.member # member}
            \cup {[member |-> member, score |-> score]}]

(* EXPIRE key seconds *)
Expire(key, seconds, t) ==
    IF key.members = {} THEN key ELSE [key EXCEPT !.expire_at = {t + seconds}]

(* str(current_time), the member name used by zadd *)
MemberOf(current_time) == ToString(current_time)

(* pipeline.zadd(...); pipeline.expire(...); pipeline.execute() *)
RedisRecord(key, current_time, window) ==
    Expire(ZAdd(key, MemberOf(current_time), current_time), window, current_time)

(* RedisRateLimiter.check_rate_limit run without interleaving *)
RedisCheck(key0, current_time, window, ceiling) ==
    LET window_start == current_time - window
        key == ZRemRangeByScore(Live(key0, current_time), 0, window_start)
        current_count == ZCard(key)
    IN  IF current_count >= ceiling
        THEN [key |-> key, allowed |-> FALSE, remaining |-> 0]
        ELSE [key |-> RedisRecord(key, current_time, window),
              allowed |-> TRUE,
              remaining |-> ceiling - (current_count + 1)]

IdleInstance ==
    [pc |-> "idle", client |-> "ip1", current_time |-> 0, current_count |-> 0,
     allowed |-> FALSE, remaining |-> 0, free |-> 0, overlapped |-> FALSE,
     ncalls |-> 0]

RLInit ==
    /\ now = 0
    /\ requests = [c \in Clients |-> <<>>]
    /\ store = [c \in Clients |-> EmptyKey]
    /\ calls = <<>>
    /\ inst = [i \in Instances |-> IdleInstance]

(* One sequential check_rate_limit(client_id, max_requests) call reading   *)
(* the clock at t, served by both limiters on their own stores.            *)
CheckRateLimit(c, t) ==
    /\ Len(calls) < MaxCalls
    /\ t >= now
    /\ now' = t
    /\ LET m == InMemoryCheck(requests[c], t, window_seconds, max_requests)
           r == RedisCheck(store[c], t, window_seconds, max_requests)
       IN  /\ requests' = [requests EXCEPT ![c] = m.requests]
           /\ store' = [store EXCEPT ![c] = r.key]
           /\ calls' = Append(calls,
                  [client |-> c, time |-> t,
                   allowed |-> m.allowed, remaining |-> m.remaining,
                   shared_allowed |-> r.allowed,
                   shared_remaining |-> r.remaining])
    /\ UNCHANGED <<window_seconds, max_requests, inst, gwVars, tdVars>>

NextRateLimit == \E c \in Clients, t \in Times : CheckRateLimit(c, t)

(* ---- RedisRateLimiter.check_rate_limit, one Redis round trip per step -- *)
(* Several gateway instances share the Redis store; each command is        *)
(* atomic in Redis, the sequence of commands of one call is not.           *)

InFlight(i) == inst[i].pc \in {"trim", "count", "add"}

(* Capacity left for client c at instant t, as the store shows it *)
FreeCapacity(c, t) ==
    max_requests
        - ZCard(ZRemRangeByScore(Live(store[c], t), 0, t - window_seconds))

(* current_time = time.time(); key = f"rate_limit:{client_id}" *)
RedisBegin(i, c, t) ==
    /\ inst[i].pc \in {"idle", "done"}
    /\ inst[i].ncalls < MaxInstanceCalls
    /\ t >= now
    /\ t <= MaxTime
    /\ now' = t
    /\ inst' = [j \in Instances |->
            IF j = i
            THEN [pc |-> "trim", client |-> c, current_time |-> t,
                  current_count |-> 0, allowed |-> FALSE, remaining |-> 0,
                  free |-> FreeCapacity(c, t),
                  overlapped |-> \E k \in Instances \ {i} :
                                    InFlight(k) /\ inst[k].client = c,
                  ncalls |-> inst[i].ncalls + 1]
            ELSE IF InFlight(j) /\ inst[j].client = c
                 THEN [inst[j] EXCEPT !.overlapped = TRUE]
                 ELSE inst[j]]
    /\ UNCHANGED <<window_seconds, max_requests, requests, store, calls, gwVars, tdVars>>

(* self.redis.zremrangebyscore(key, 0, window_start) *)
RedisTrim(i) ==
    /\ inst[i].pc = "trim"
    /\ LET c == inst[i].client
           window_start == inst[i].current_time - window_seconds
       IN  store' = [store EXCEPT ![c] =
                        ZRemRangeByScore(Live(store[c], now), 0, window_start)]
    /\ inst' = [inst EXCEPT ![i].pc = "count"]
    /\ UNCHANGED <<now, window_seconds, max_requests, requests, calls, gwVars, tdVars>>

(* current_count = self.redis.zcard(key); if current_count >= max_requests *)
RedisCount(i) ==
    /\ inst[i].pc = "count"
    /\ LET current_count == ZCard(Live(store[inst[i].client], now))
       IN  inst' = [inst EXCEPT ![i] =
                IF current_count >= max_requests
                THEN [@ EXCEPT !.pc = "done", !.current_count = current_count,
                               !.allowed = FALSE, !.remaining = 0]
                ELSE [@ EXCEPT !.pc = "add", !.current_count = current_count]]
    /\ UNCHANGED <<now, window_seconds, max_requests, requests, store, calls, gwVars, tdVars>>

(* pipeline zadd + expire; remaining = max_requests - (current_count + 1) *)
RedisAdd(i) ==
    /\ inst[i].pc = "add"
    /\ LET c == inst[i].client
       IN  store' = [store EXCEPT ![c] =
                        RedisRecord(Live(store[c], now), inst[i].current_time,
                                    window_seconds)]
    /\ inst' = [inst EXCEPT ![i] =
            [@ EXCEPT !.pc = "done", !.allowed = TRUE,
                      !.remaining = max_requests - (inst[i].current_count + 1)]]
    /\ UNCHANGED <<now, window_seconds, max_requests, requests, calls, gwVars, tdVars>>

NextShared ==
    \/ \E i \in Instances, c \in Clients, t \in Times : RedisBegin(i, c, t)
    \/ \E i \in Instances : RedisTrim(i)
    \/ \E i \in Instances : RedisCount(i)
    \/ \E i \in Instances : RedisAdd(i)


(***************************************************************************)
(* Part 2.  Gateway pipeline                                               *)
(***************************************************************************)

(* Mutant: no path has the prefix. *)
StartsWith_Never(s, p) == FALSE

(* Strings the code takes apart are sequences of characters. *)
StartsWith(s, p) == Len(s) >= Len(p) /\ SubSeq(s, 1, Len(p)) = p

RECURSIVE Split(_, _)
(* str.split(sep) *)
Split(s, sep) ==
    IF \A i \in DOMAIN s : s[i] # sep
    THEN <<s>>
    ELSE LET i == CHOOSE k \in DOMAIN s :
                      s[k] = sep /\ \A j \in 1 .. (k - 1) : s[j] # sep
         IN  <<SubSeq(s, 1, i - 1)>> \o Split(SubSeq(s, i + 1, Len(s)), sep)

(* An optional value: <<>> is None, <<v>> is the value v. *)
None == <<>>
Some(v) == <<v>>

PathRoot == <<"/">>
PathHealth == <<"/", "h", "e", "a", "l", "t", "h">>
PathAuth == <<"/", "a", "p", "i", "/", "a", "u", "t", "h", "/", "x">>
PathUsers == <<"/", "a", "p", "i", "/", "u", "s", "e", "r", "s", "/", "x">>
PathTenants == <<"/", "a", "p", "i", "/", "t", "e", "n", "a", "n", "t", "s", "/", "x">>
PathRoles == <<"/", "a", "p", "i", "/", "r", "o", "l", "e", "s", "/", "x">>
PathOther == <<"/", "x">>
Paths == {PathRoot, PathHealth, PathAuth, PathUsers, PathTenants, PathRoles, PathOther}

PrefixHealth == <<"/", "h", "e", "a", "l", "t", "h">>
PrefixAuth == <<"/", "a", "p", "i", "/", "a", "u", "t", "h">>
RouteUsers == <<"/", "a", "p", "i", "/", "u", "s", "e", "r", "s", "/">>
RouteTenants == <<"/", "a", "p", "i", "/", "t", "e", "n", "a", "n", "t", "s", "/">>
RouteAuth == <<"/", "a", "p", "i", "/", "a", "u", "t", "h", "/">>
RouteRoles == <<"/", "a", "p", "i", "/", "r", "o", "l", "e", "s", "/">>

HostAcme == <<"a", "c", "m", "e", ".", "e", "x", "a", "m", "p", "l", "e", ".", "c", "o", "m">>
HostBare == <<"e", "x", "a", "m", "p", "l", "e", ".", "c", "o", "m">>
Hosts == {HostAcme, HostBare}

(* Further Host header values: with a port, one label, four labels, an *)
(* empty first label.                                                    *)
HostAcmePort == HostAcme \o <<":", "8", "0">>
HostBarePort == HostBare \o <<":", "8", "0">>
HostLocalPort == <<"l", "o", "c", "a", "l", "h", "o", "s", "t", ":", "8", "0">>
HostDeep == <<"a", ".", "b", ".", "e", "x", ".", "c", "o", "m">>
HostEmptyLabel == <<".", "e", "x", ".", "c", "o", "m">>
HostEmpty == <<>>
AllHosts == Hosts \cup {HostAcmePort, HostBarePort, HostLocalPort, HostDeep,
                        HostEmptyLabel, HostEmpty}

TenantHeaders == {None, Some(""), Some("t-42")}
ForwardedFor == {None, Some("ip2")}
PeerHost == "ip1"

SchemeBearer == <<"B", "e", "a", "r", "e", "r">>
Authorizations ==
    {None, Some(<<SchemeBearer, "good">>), Some(<<SchemeBearer, "forged">>)}


(* Starlette's add_middleware: self.user_middleware.insert(0, middleware) *)
AddMiddleware(stack, middleware) == <<middleware>> \o stack

(* main.py, module level: the add_middleware calls in source order *)
BuildMiddleware ==
    AddMiddleware(
        AddMiddleware(
            AddMiddleware(
                AddMiddleware(<<>>, "CORSMiddleware"),
                "LoggingMiddleware"),
            "RateLimitMiddleware"),
        "TenantResolverMiddleware")

(* startup_event: the two register_service calls *)
StartupServices ==
    [n \in {"user-management", "tenant-resolver"} |->
        IF n = "user-management" THEN "http://user-management-service:8001"
                                 ELSE "http://tenant-resolver-service:8002"]

NoRequest ==
    [pc |-> "idle", depth |-> 0, path |-> PathRoot, forwarded |-> None,
     tenant_header |-> None, host |-> HostBare, authorization |-> None,
     tenant_id |-> None, subdomain |-> None, entered |-> <<>>, dir_calls |-> 0,
     upstream_calls |-> 0, status |-> 0, raised |-> "none", lookup |-> "none",
     response_headers |-> {}, user |-> None,
     service_known |-> TRUE, body_read |-> FALSE, outbound |-> {},
     redirects |-> 0, upstream_failed |-> FALSE, upstream_status |-> 0]

(* What a registry read returned: nothing has been read yet *)
NoRead == [op |-> "none", name |-> "", url |-> None, names |-> {}]

GWInit ==
    /\ user_middleware = BuildMiddleware
    /\ services = StartupServices
    /\ gw = NoRequest
    /\ lookups = {}
    /\ registry_out = NoRead
    /\ registered = DOMAIN StartupServices
    /\ last_address = {<<n, StartupServices[n]>> : n \in DOMAIN StartupServices}

(* Mutant: two labels are taken to carry a subdomain. *)
extract_subdomain_TwoLabels(host) ==
    LET parts == Split(Split(host, ":")[1], ".")
    IN  IF Len(parts) >= 2 THEN Some(parts[1]) ELSE None

(* TenantResolverMiddleware.extract_subdomain *)
extract_subdomain(host) ==
    LET parts == Split(Split(host, ":")[1], ".")
    IN  IF Len(parts) >= 3 THEN Some(parts[1]) ELSE None

(* RateLimitMiddleware._default_get_client_id *)
default_get_client_id(r) ==
    IF r.forwarded # None /\ r.forwarded[1] # "" THEN r.forwarded[1] ELSE PeerHost

(* Mutant: no value counts as present. *)
Truthy_Never(opt) == FALSE

(* Python truthiness of an optional string (a header value, an id) *)
Truthy(opt) == opt # None /\ opt[1] # ""

(* Python truthiness of an optional string held as characters *)
TruthyChars(opt) == opt # None /\ opt[1] # <<>>

(* GET routes the Tenant Directory service declares (tenant-resolver-service/main.py) *)
DirectoryGetRoutes ==
    {<<>>, <<"tenants", "{tenant_id}">>, <<"tenants", "subdomain", "{subdomain}">>,
     <<"tenants", "{tenant_id}", "database">>}

(* The route the gateway asks for: f"{url}/resolve/{subdomain}" *)
ResolveRoute == <<"resolve", "{subdomain}">>

(* Status of the Directory's answer to the gateway's lookup of subdomain s *)
DirectoryStatus(s) ==
    IF ResolveRoute \in DirectoryGetRoutes /\ \E t \in tenants : t.subdomain = s
    THEN 200 ELSE 404

(* settings.TENANT_RESOLVER_SERVICE_URL: the default names this repository's *)
(* tenant-resolver-service; the environment may name another Directory.      *)
RepoDirectory == "http://tenant-resolver-service:8002"
OtherDirectory == "http://directory.example"

(* An HTTP response to the lookup: status and what the body parses to *)
Response(status, body, tenant_id) ==
    [status |-> status, body |-> body, tenant_id |-> tenant_id]

(* What this repository's tenant-resolver-service answers for subdomain s *)
DirectoryAnswer(s) ==
    IF DirectoryStatus(s) = 200
    THEN Response(200, "object",
                  Some((CHOOSE t \in tenants : t.subdomain = s).id))
    ELSE Response(404, "object", None)

(* What a Directory at another URL may answer *)
OtherAnswers ==
    {Response(200, "object", Some("t-7")), Response(200, "object", None),
     Response(200, "malformed", None), Response(404, "object", None),
     Response(500, "malformed", None)}

(* resolve_tenant_from_subdomain once the GET has returned or failed: the   *)
(* tenant id it returns, or the exception that leaves it (response.json()   *)
(* on a body that is no JSON raises a ValueError, which is not caught)      *)
resolve_tenant_from_subdomain(network_ok, response) ==
    IF ~network_ok
    THEN [raised |-> "none", tenant_id |-> None]
    ELSE IF response.status = 200
    THEN IF response.body = "malformed"
         THEN [raised |-> "JSONDecodeError", tenant_id |-> None]
         ELSE [raised |-> "none", tenant_id |-> response.tenant_id]
    ELSE [raised |-> "none", tenant_id |-> None]

(* A request arrives and enters the outermost middleware. *)
Arrive(path, fwd, th, host, auth) ==
    /\ gw.pc = "idle"
    /\ gw' = [NoRequest EXCEPT !.pc = "mw", !.depth = 1, !.path = path,
                               !.forwarded = fwd, !.tenant_header = th,
                               !.host = host, !.authorization = auth]
    /\ UNCHANGED <<gwFixed, regVars, lookups, rlVars, tdVars>>

At(name) ==
    /\ gw.pc = "mw"
    /\ gw.depth <= Len(user_middleware)
    /\ user_middleware[gw.depth] = name

(* call_next(request) *)
CallNext(r, stage) ==
    [r EXCEPT !.depth = r.depth + 1, !.entered = Append(r.entered, stage)]

(* TenantResolverMiddleware.dispatch, up to the directory call *)
TenantResolverDispatch ==
    /\ At("TenantResolverMiddleware")
    /\ LET exempt == \/ StartsWith(gw.path, PrefixHealth)
                     \/ StartsWith(gw.path, PrefixAuth)
                     \/ gw.path = PathRoot
           subdomain == extract_subdomain(gw.host)
       IN  gw' = IF exempt
                 THEN CallNext(gw, "tenant")
                 ELSE IF Truthy(gw.tenant_header)
                 THEN CallNext([gw EXCEPT !.tenant_id = gw.tenant_header], "tenant")
                 ELSE IF TruthyChars(subdomain)
                 THEN [gw EXCEPT !.pc = "lookup", !.subdomain = subdomain,
                                 !.entered = Append(gw.entered, "tenant")]
                 ELSE [CallNext(gw, "tenant") EXCEPT !.subdomain = subdomain]
    /\ UNCHANGED <<gwFixed, regVars, lookups, rlVars, tdVars>>

(* How a lookup went, as seen on the wire *)
LookupOutcome(network_ok, response) ==
    IF ~network_ok THEN "network_error"
    ELSE IF response.status # 200 THEN "non_200"
    ELSE IF response.body = "malformed" THEN "malformed"
    ELSE IF response.tenant_id = None THEN "no_tenant_id"
    ELSE "ok"

(* resolve_tenant_from_subdomain returns into dispatch: the GET to the    *)
(* Tenant Directory has been answered, or has failed on the network      *)
DirectoryLookup(network_ok, answer) ==
    /\ gw.pc = "lookup"
    /\ LET response == IF tenant_resolver_url = RepoDirectory
                       THEN DirectoryAnswer(gw.subdomain[1])
                       ELSE answer
           out == resolve_tenant_from_subdomain(network_ok, response)
           outcome == LookupOutcome(network_ok, response)
       IN  /\ gw' = IF out.raised # "none"
                    THEN [gw EXCEPT !.pc = "done", !.status = 500,
                                    !.raised = out.raised,
                                    !.lookup = outcome,
                                    !.dir_calls = gw.dir_calls + 1]
                    ELSE [gw EXCEPT !.pc = "mw", !.depth = gw.depth + 1,
                                    !.dir_calls = gw.dir_calls + 1,
                                    !.lookup = outcome,
                                    !.tenant_id = IF Truthy(out.tenant_id)
                                                  THEN out.tenant_id ELSE None]
           /\ lookups' = IF out.raised = "none" /\ Truthy(out.tenant_id)
                         THEN lookups \cup {<<gw.subdomain[1], out.tenant_id[1]>>}
                         ELSE lookups
    /\ UNCHANGED <<gwFixed, regVars, rlVars, tdVars>>

(* What the gateway finds at startup: settings.USE_REDIS_RATE_LIMIT, whether *)
(* the redis package imports (REDIS_AVAILABLE), whether the server answers.  *)
Startup(use_redis, redis_available, redis_reachable) ==
    [use_redis |-> use_redis, redis_available |-> redis_available,
     redis_reachable |-> redis_reachable]
LocalStartup == Startup(FALSE, TRUE, TRUE)
RedisDownStartup == Startup(TRUE, TRUE, FALSE)
RedisUpStartup == Startup(TRUE, TRUE, TRUE)

(* RedisRateLimiter.__init__: raises without the package; redis.Redis(...) *)
(* builds a client and opens no connection                                 *)
RedisRateLimiterInit(st) ==
    IF ~st.redis_available THEN "raised" ELSE "redis"

(* RateLimitMiddleware.__init__: the limiter chosen *)
rate_limiter_init(st) ==
    IF st.use_redis /\ st.redis_available
    THEN IF RedisRateLimiterInit(st) = "raised" THEN "memory" ELSE "redis"
    ELSE "memory"

(* RateLimitMiddleware.dispatch *)
RateLimitDispatch(t, redis_up) ==
    /\ At("RateLimitMiddleware")
    /\ t >= now
    /\ IF StartsWith(gw.path, PrefixHealth)
       THEN /\ gw' = CallNext(gw, "ratelimit")
            /\ UNCHANGED rlVars
       ELSE LET c == default_get_client_id(gw)
                m == InMemoryCheck(requests[c], t, window_seconds, max_requests)
                r == RedisCheck(store[c], t, window_seconds, max_requests)
                allowed == IF limiter = "memory" THEN m.allowed ELSE r.allowed
            IN  /\ now' = t
                /\ IF limiter = "memory"
                   THEN /\ requests' = [requests EXCEPT ![c] = m.requests]
                        /\ UNCHANGED store
                        /\ gw' = IF allowed
                                 THEN CallNext(gw, "ratelimit")
                                 ELSE [gw EXCEPT !.pc = "done", !.status = 429,
                                        !.response_headers = {"Retry-After"},
                                        !.entered = Append(gw.entered, "ratelimit")]
                   ELSE IF redis_up
                   THEN /\ store' = [store EXCEPT ![c] = r.key]
                        /\ UNCHANGED requests
                        /\ gw' = IF allowed
                                 THEN CallNext(gw, "ratelimit")
                                 ELSE [gw EXCEPT !.pc = "done", !.status = 429,
                                        !.response_headers = {"Retry-After"},
                                        !.entered = Append(gw.entered, "ratelimit")]
                   ELSE /\ UNCHANGED <<requests, store>>
                        /\ gw' = [gw EXCEPT !.pc = "done", !.status = 500,
                                        !.raised = "ConnectionError",
                                        !.entered = Append(gw.entered, "ratelimit")]
                /\ UNCHANGED <<window_seconds, max_requests, calls, inst>>
    /\ UNCHANGED <<gwFixed, regVars, lookups, tdVars>>

(* LoggingMiddleware.dispatch: log the request, call_next *)
LoggingDispatch ==
    /\ At("LoggingMiddleware")
    /\ gw' = CallNext(gw, "logging")
    /\ UNCHANGED <<gwFixed, regVars, lookups, rlVars, tdVars>>

(* CORSMiddleware on a request that is no preflight: passed on *)
CORSDispatch ==
    /\ At("CORSMiddleware")
    /\ gw' = CallNext(gw, "cors")
    /\ UNCHANGED <<gwFixed, regVars, lookups, rlVars, tdVars>>


Upper == <<"A", "B", "C", "D", "E", "F", "G", "H", "I", "J", "K", "L", "M",
           "N", "O", "P", "Q", "R", "S", "T", "U", "V", "W", "X", "Y", "Z">>
Lowercase == <<"a", "b", "c", "d", "e", "f", "g", "h", "i", "j", "k", "l", "m",
               "n", "o", "p", "q", "r", "s", "t", "u", "v", "w", "x", "y", "z">>

(* str.lower() *)
Lower(s) ==
    [i \in DOMAIN s |->
        IF \E k \in DOMAIN Upper : Upper[k] = s[i]
        THEN Lowercase[CHOOSE k \in DOMAIN Upper : Upper[k] = s[i]]
        ELSE s[i]]

(* Tokens a client may present: what jwt.decode finds in each *)
Tokens == {"good", "forged", "nosub", "notenant", "expired"}
TokenPayload(token) ==
    [signed |-> token # "forged",
     expired |-> token = "expired",
     sub |-> IF token = "nosub" THEN None ELSE Some("u-1"),
     tenant_id |-> IF token = "notenant" THEN None ELSE Some("t-42")]

(* validate_token: jwt.decode checks signature and expiry and returns the *)
(* payload; no claim is required to be present                            *)
validate_token(token) ==
    IF ~TokenPayload(token).signed THEN [raised |-> "InvalidSignatureError"]
    ELSE IF TokenPayload(token).expired THEN [raised |-> "ExpiredSignatureError"]
    ELSE [raised |-> "none", sub |-> TokenPayload(token).sub,
          tenant_id |-> TokenPayload(token).tenant_id]

(* extract_user_info: payload.get("sub"), payload.get("tenant_id") *)
extract_user_info(payload) ==
    [user_id |-> payload.sub, tenant_id |-> payload.tenant_id]

(* jwt.decode with the gateway's secret: the tokens that verify *)
ValidTokens == {token \in Tokens : validate_token(token).raised = "none"}

(* Headers of the response FastAPI builds for the HTTPException that *)
(* get_token_header raises: the raise passes no headers               *)
HTTPExceptionHeaders == {}

(* get_token_header: the status it raises, 0 when it returns user info *)
get_token_header(authorization) ==
    IF authorization = None \/ authorization[1] = <<>>
    THEN 401
    ELSE IF Len(authorization[1]) # 2
    THEN 500
    ELSE IF Lower(authorization[1][1]) # Lower(SchemeBearer)
    THEN 401
    ELSE IF authorization[1][2] \notin ValidTokens
    THEN 401
    ELSE 0

(* The route main.py matches for a path: protected?, service, or none *)
RouteOf(path) ==
    IF path = PathHealth THEN [kind |-> "health", auth |-> FALSE, service |-> ""]
    ELSE IF StartsWith(path, RouteUsers)
    THEN [kind |-> "proxy", auth |-> TRUE, service |-> "user-management"]
    ELSE IF StartsWith(path, RouteTenants)
    THEN [kind |-> "proxy", auth |-> TRUE, service |-> "tenant-resolver"]
    ELSE IF StartsWith(path, RouteAuth)
    THEN [kind |-> "proxy", auth |-> FALSE, service |-> "user-management"]
    ELSE IF StartsWith(path, RouteRoles)
    THEN [kind |-> "proxy", auth |-> FALSE, service |-> "user-management"]
    ELSE [kind |-> "catch_all", auth |-> FALSE, service |-> ""]

(* Mutant: an address is returned for every name. *)
get_service_url_Stale(service_name) == Some("http://user-management-service:8001")

(* ServiceRegistry.get_service_url *)
get_service_url(service_name) ==
    IF service_name \in DOMAIN services THEN Some(services[service_name]) ELSE None

(* The tenant header as proxy_request writes it *)
TenantHeaderName == <<"X", "-", "T", "e", "n", "a", "n", "t", "-", "I", "D">>

(* dict(request.headers): name/value pairs, the names as the ASGI server *)
(* hands them over, in lower case                                        *)
request_headers(r) ==
    IF r.tenant_header = None THEN {}
    ELSE {<<Lower(TenantHeaderName), r.tenant_header[1]>>}

(* headers[key] = value on a dict: keys are compared exactly *)
SetItem(headers, key, value) ==
    {h \in headers : h[1] # key} \cup {<<key, value>>}

(* proxy_request: the headers of the outbound request *)
forward_headers(r) ==
    IF r.tenant_id # None
    THEN SetItem(request_headers(r), TenantHeaderName, r.tenant_id[1])
    ELSE request_headers(r)

(* The route handler: dependency get_token_header, then proxy_request up to *)
(* the outbound call.                                                       *)
RouteHandler ==
    /\ gw.pc = "mw"
    /\ gw.depth > Len(user_middleware)
    /\ LET route == RouteOf(gw.path)
           denied == IF route.auth THEN get_token_header(gw.authorization) ELSE 0
           seen == IF route.auth THEN Append(gw.entered, "auth") ELSE gw.entered
           known == route.service \in DOMAIN services
           user == IF route.auth /\ denied = 0
                   THEN Some(extract_user_info(
                                validate_token(gw.authorization[1][2])))
                   ELSE None
       IN  gw' = IF route.kind = "health"
                 THEN [gw EXCEPT !.pc = "done", !.status = 200]
                 ELSE IF route.kind = "catch_all"
                 THEN [gw EXCEPT !.pc = "done", !.status = 404]
                 ELSE IF denied # 0
                 THEN [gw EXCEPT !.pc = "done", !.status = denied,
                                 !.response_headers = HTTPExceptionHeaders,
                                 !.entered = seen]
                 ELSE IF get_service_url(route.service) = None
                 THEN [gw EXCEPT !.pc = "done", !.status = 503,
                                 !.service_known = known, !.user = user,
                                 !.entered = Append(seen, "forward")]
                 ELSE [gw EXCEPT !.pc = "upstream", !.user = user,
                                 !.service_known = known,
                                 !.outbound = forward_headers(gw),
                                 !.body_read = TRUE,
                                 !.entered = Append(seen, "forward")]
    /\ UNCHANGED <<gwFixed, regVars, lookups, rlVars, tdVars>>

(* Status codes of the upstream's answers; 302 stands for a redirect that *)
(* carries a Location.                                                    *)
RedirectStatus == 302
UpstreamStatuses == {200, 404, RedirectStatus}

(* Mutant: after a network failure the request is sent again. *)
on_request_error_Retry(r) ==
    [r EXCEPT !.upstream_calls = r.upstream_calls + 1, !.upstream_failed = TRUE]

(* proxy_request, except httpx.RequestError: raise HTTPException(503) *)
on_request_error(r) ==
    [r EXCEPT !.pc = "done", !.status = 503,
              !.upstream_calls = r.upstream_calls + 1, !.upstream_failed = TRUE]

(* proxy_request: client.request(..., follow_redirects=True) sends one      *)
(* request; the upstream answers, or the network fails (httpx.RequestError, *)
(* which TooManyRedirects also is).  A redirect answer is followed.         *)
Upstream(network_ok, upstream_status) ==
    /\ gw.pc = "upstream"
    /\ gw' = IF ~network_ok
             THEN on_request_error(gw)
             ELSE IF upstream_status = RedirectStatus
             THEN IF gw.redirects < MaxRedirects
                  THEN [gw EXCEPT !.upstream_calls = gw.upstream_calls + 1,
                                  !.redirects = gw.redirects + 1,
                                  !.upstream_status = upstream_status]
                  ELSE [gw EXCEPT !.pc = "done", !.status = 503,
                                  !.upstream_calls = gw.upstream_calls + 1,
                                  !.upstream_status = upstream_status]
             ELSE [gw EXCEPT !.pc = "done", !.status = upstream_status,
                             !.upstream_calls = gw.upstream_calls + 1,
                             !.upstream_status = upstream_status]
    /\ UNCHANGED <<gwFixed, regVars, lookups, rlVars, tdVars>>

(* The response has been sent; the gateway is ready for the next request. *)
Finish ==
    /\ gw.pc = "done"
    /\ gw' = NoRequest
    /\ UNCHANGED <<gwFixed, regVars, lookups, rlVars, tdVars>>

(* Clock readings of the gateway runs: two close instants and one a whole *)
(* window later.                                                          *)
GatewayTimes == {t \in Times : t <= 1 \/ t > MaxTime}

(* ---- ServiceRegistry: each method runs under self._lock --------------- *)
ServiceNames == DOMAIN StartupServices \cup {"billing"}
ServiceUrls == {StartupServices[n] : n \in DOMAIN StartupServices}

(* Mutant: a name already present keeps its first address. *)
register_service_FirstWins(svc, service_name, service_url) ==
    [n \in DOMAIN svc \cup {service_name} |->
        IF n \in DOMAIN svc THEN svc[n] ELSE service_url]

(* self._services[service_name] = service_url *)
register_service(svc, service_name, service_url) ==
    [n \in DOMAIN svc \cup {service_name} |->
        IF n = service_name THEN service_url ELSE svc[n]]

(* Mutant: the entry is left in place. *)
unregister_service_Kept(svc, service_name) == svc

(* if service_name in self._services: del self._services[service_name] *)
unregister_service(svc, service_name) ==
    [n \in DOMAIN svc \ {service_name} |-> svc[n]]

(* list(self._services.keys()) *)
list_services(svc) == DOMAIN svc

RegisterService(service_name, service_url) ==
    /\ services' = register_service(services, service_name, service_url)
    /\ registered' = registered \cup {service_name}
    /\ last_address' = {a \in last_address : a[1] # service_name}
                            \cup {<<service_name, service_url>>}
    /\ registry_out' = NoRead
    /\ UNCHANGED <<gwFixed, lookups, gw, rlVars, tdVars>>

UnregisterService(service_name) ==
    /\ services' = unregister_service(services, service_name)
    /\ registered' = registered \ {service_name}
    /\ last_address' = {a \in last_address : a[1] # service_name}
    /\ registry_out' = NoRead
    /\ UNCHANGED <<gwFixed, lookups, gw, rlVars, tdVars>>

GetServiceUrl(service_name) ==
    /\ registry_out' = [NoRead EXCEPT !.op = "get", !.name = service_name,
                                      !.url = get_service_url(service_name)]
    /\ UNCHANGED <<services, registered, last_address, gwFixed, lookups, gw,
                   rlVars, tdVars>>

ListServices ==
    /\ registry_out' = [NoRead EXCEPT !.op = "list",
                                      !.names = list_services(services)]
    /\ UNCHANGED <<services, registered, last_address, gwFixed, lookups, gw,
                   rlVars, tdVars>>

NextRegistry ==
    \/ \E n \in ServiceNames, u \in ServiceUrls : RegisterService(n, u)
    \/ \E n \in ServiceNames : UnregisterService(n)
    \/ \E n \in ServiceNames : GetServiceUrl(n)
    \/ ListServices

NextGateway ==
    \/ \E path \in Paths, fwd \in ForwardedFor, th \in TenantHeaders,
         host \in Hosts, auth \in Authorizations :
             Arrive(path, fwd, th, host, auth)
    \/ TenantResolverDispatch
    \/ \E ok \in BOOLEAN, answer \in OtherAnswers : DirectoryLookup(ok, answer)
    \/ \E t \in GatewayTimes, up \in BOOLEAN : RateLimitDispatch(t, up)
    \/ LoggingDispatch
    \/ CORSDispatch
    \/ RouteHandler
    \/ \E ok \in BOOLEAN, st \in UpstreamStatuses : Upstream(ok, st)
    \/ Finish

(* ---- The resolver and the forwarder, with the registry changing -------- *)
ResolverPaths == {PathUsers, PathRoles, PathAuth, PathHealth, PathRoot}
ResolverHosts == {HostAcme, HostBare, HostAcmePort, HostDeep}
SchemeBasic == <<"B", "a", "s", "i", "c">>
ResolverAuthorizations ==
    {None, Some(<<SchemeBearer>>), Some(<<SchemeBasic, "good">>),
     Some(<<SchemeBearer, "good", "x">>)}
        \cup {Some(<<SchemeBearer, token>>) : token \in Tokens}
ResolverServices == {"user-management"}

NextResolver ==
    \/ \E path \in ResolverPaths, th \in TenantHeaders, host \in ResolverHosts,
         auth \in ResolverAuthorizations :
             Arrive(path, None, th, host, auth)
    \/ TenantResolverDispatch
    \/ \E ok \in BOOLEAN, answer \in OtherAnswers : DirectoryLookup(ok, answer)
    \/ RateLimitDispatch(0, TRUE)
    \/ LoggingDispatch
    \/ CORSDispatch
    \/ RouteHandler
    \/ \E ok \in BOOLEAN, st \in UpstreamStatuses : Upstream(ok, st)
    \/ Finish
    \/ \E n \in ResolverServices : RegisterService(n, StartupServices[n])
    \/ \E n \in ResolverServices : UnregisterService(n)

(***************************************************************************)
(* Part 3.  Tenant Directory: create-tenant and provisioning               *)
(***************************************************************************)
MaxCreates == 2

CreateRequests == 1 .. MaxCreates

SubAcmeCap == <<"A", "c", "m", "e">>
SubAcme == <<"a", "c", "m", "e">>
Subdomains == {SubAcmeCap, SubAcme}

(* tenant_id = str(uuid.uuid4()): a fresh id, the request's own *)
uuid4(r) == ToString(r)

(* db_password = str(uuid.uuid4()): a second fresh value *)
db_password(r) == uuid4(r + MaxCreates)
db_name(id) == "tenant_" \o id
db_user(id) == "tenant_user_" \o id

(* postgresql://{db_user}:{db_password}@{db_host}:{db_port}/{db_name}: the *)
(* values the connection string is made of                                *)
db_url(r) == {db_user(uuid4(r)), db_password(r), "db_host", "db_port",
              db_name(uuid4(r))}

(* env = os.environ.copy(); env["TENANT_DB_URL"] = db_url *)
migration_env(r) == {"os.environ"} \cup db_url(r)

(* One line written to the console: which print wrote it, and the values *)
(* its text contains                                                     *)
Line(event, text) == [event |-> event, text |-> text]
LineCreated(r) == Line("created", {db_name(uuid4(r)), db_user(uuid4(r))})
LineRunning(r) == Line("running", {"name", uuid4(r)})
LineEnv(r) == Line("env", migration_env(r))
LineCompleted(r) == Line("completed", {uuid4(r)})
LinePublished == Line("published", {"tenant.created"})

NewCreate ==
    [pc |-> "new", subdomain |-> <<>>, id |-> "", status |-> 0,
     raised |-> "none", unwind_failure |-> "none", detail |-> {},
     steps |-> {}, prior_dup |-> FALSE, console |-> {}, publish_failed |-> {}]

TDInit ==
    /\ tenants = {}
    /\ backend = [databases |-> {}, users |-> {}, grants |-> {}, migrated |-> {}]
    /\ creq = [r \in CreateRequests |-> NewCreate]
    /\ bus = {}

(* The Directory after one create-tenant request for 'acme' has returned 201 *)
SeededDirectory ==
    /\ tenants = {[id |-> uuid4(1), subdomain |-> SubAcme, req |-> 1]}
    /\ backend = [databases |-> {uuid4(1)}, users |-> {uuid4(1)},
                  grants |-> {uuid4(1)}, migrated |-> {uuid4(1)}]
    /\ creq = [r \in CreateRequests |->
                IF r = 1
                THEN [NewCreate EXCEPT !.pc = "done", !.subdomain = SubAcme,
                          !.id = uuid4(1), !.status = 201,
                          !.steps = {"check", "check_service", "insert",
                                     "connect", "create_database", "create_user",
                                     "grant", "migrate", "publish_service",
                                     "publish_main"},
                          !.console = {LineCreated(1), LineRunning(1), LineEnv(1),
                                       LineCompleted(1), LinePublished}]
                ELSE NewCreate]
    /\ bus = {[event_type |-> "tenant.created", tenant_id |-> uuid4(1), by |-> b] :
                  b \in {"tenant_service", "main"}}

(* tenant_service.get_tenant_by_subdomain: filter(subdomain == subdomain).first() *)
get_tenant_by_subdomain(subdomain) == {t \in tenants : t.subdomain = subdomain}

(* Statements provision_database runs on the admin connection *)
CreateDatabaseStmt(b, id) == [b EXCEPT !.databases = @ \cup {id}]
CreateUserStmt(b, id) == [b EXCEPT !.users = @ \cup {id}]
GrantStmt(b, id) == [b EXCEPT !.grants = @ \cup {id}]
DropDatabaseIfExists(b, id) ==
    [b EXCEPT !.databases = @ \ {id}, !.grants = @ \ {id}, !.migrated = @ \ {id}]

(* Mutant: the cleanup leaves the role in place. *)
DropUserIfExists_Skipped(b, id) == b

DropUserIfExists(b, id) == [b EXCEPT !.users = @ \ {id}]

Step(r, pc) == [creq EXCEPT ![r].pc = pc, ![r].steps = @ \cup {creq[r].pc}]

(* A tenant whose create request has returned 201 *)
Persisted(t) == creq[t.req].pc = "done" /\ creq[t.req].status = 201

(* POST /tenants {name, subdomain} reaches the handler *)
PostTenant(r, subdomain) ==
    /\ creq[r].pc = "new"
    /\ creq' = [creq EXCEPT ![r] =
            [NewCreate EXCEPT !.pc = "check", !.subdomain = subdomain,
                !.prior_dup = \E t \in tenants :
                    Persisted(t) /\ Lower(t.subdomain) = Lower(subdomain)]]
    /\ UNCHANGED <<tenants, backend, bus, rlVars, gwVars>>

(* main.create_tenant: existing tenant with this subdomain -> 409 *)
CheckSubdomain(r) ==
    /\ creq[r].pc = "check"
    /\ creq' = IF get_tenant_by_subdomain(creq[r].subdomain) # {}
               THEN [Step(r, "done") EXCEPT ![r].status = 409]
               ELSE Step(r, "check_service")
    /\ UNCHANGED <<tenants, backend, bus, rlVars, gwVars>>

(* tenant_service.create_tenant: the same check again -> 400 *)
CheckSubdomainService(r) ==
    /\ creq[r].pc = "check_service"
    /\ creq' = IF get_tenant_by_subdomain(creq[r].subdomain) # {}
               THEN [Step(r, "done") EXCEPT ![r].status = 400]
               ELSE Step(r, "insert")
    /\ UNCHANGED <<tenants, backend, bus, rlVars, gwVars>>

(* db.add(db_tenant); db.commit(): the row is committed, unless the unique *)
(* index on subdomain refuses it (IntegrityError, unhandled: 500)          *)
InsertTenant(r) ==
    /\ creq[r].pc = "insert"
    /\ IF \E t \in tenants : t.subdomain = creq[r].subdomain
       THEN /\ creq' = [Step(r, "done") EXCEPT ![r].status = 500,
                                               ![r].raised = "integrity",
                                               ![r].detail = {"integrity"}]
            /\ UNCHANGED tenants
       ELSE /\ tenants' = tenants \cup
                    {[id |-> uuid4(r), subdomain |-> creq[r].subdomain, req |-> r]}
            /\ creq' = [Step(r, "connect") EXCEPT ![r].id = uuid4(r)]
    /\ UNCHANGED <<backend, bus, rlVars, gwVars>>

(* provision_database: conn = get_admin_connection() *)
AdminConnect(r, ok) ==
    /\ creq[r].pc = "connect"
    /\ creq' = IF ok THEN Step(r, "create_database")
               ELSE [Step(r, "rollback") EXCEPT ![r].raised = "connect"]
    /\ UNCHANGED <<tenants, backend, bus, rlVars, gwVars>>

(* cursor.execute(CREATE DATABASE ...) *)
CreateDatabase(r, ok) ==
    /\ creq[r].pc = "create_database"
    /\ IF ok
       THEN /\ backend' = CreateDatabaseStmt(backend, creq[r].id)
            /\ creq' = Step(r, "create_user")
       ELSE /\ UNCHANGED backend
            /\ creq' = [Step(r, "drop_database") EXCEPT
                            ![r].raised = "create_database",
                            ![r].console = @ \cup {Line("provision_error", {"create_database"})}]
    /\ UNCHANGED <<tenants, bus, rlVars, gwVars>>

(* cursor.execute(CREATE USER ... WITH PASSWORD ...) *)
CreateUser(r, ok) ==
    /\ creq[r].pc = "create_user"
    /\ IF ok
       THEN /\ backend' = CreateUserStmt(backend, creq[r].id)
            /\ creq' = Step(r, "grant")
       ELSE /\ UNCHANGED backend
            /\ creq' = [Step(r, "drop_database") EXCEPT ![r].raised = "create_user",
                            ![r].console = @ \cup {Line("provision_error", {"create_user"})}]
    /\ UNCHANGED <<tenants, bus, rlVars, gwVars>>

(* cursor.execute(GRANT ALL PRIVILEGES ON DATABASE ... TO ...) *)
Grant(r, ok) ==
    /\ creq[r].pc = "grant"
    /\ IF ok
       THEN /\ backend' = GrantStmt(backend, creq[r].id)
            /\ creq' = [Step(r, "migrate") EXCEPT
                            ![r].console = @ \cup {LineCreated(r)}]
       ELSE /\ UNCHANGED backend
            /\ creq' = [Step(r, "drop_database") EXCEPT ![r].raised = "grant",
                            ![r].console = @ \cup {Line("provision_error", {"grant"})}]
    /\ UNCHANGED <<tenants, bus, rlVars, gwVars>>

(* except: cursor.execute(DROP DATABASE IF EXISTS ...); a failure here is *)
(* swallowed (except: pass) and the original exception re-raised         *)
DropDatabase(r, ok) ==
    /\ creq[r].pc = "drop_database"
    /\ IF ok
       THEN /\ backend' = DropDatabaseIfExists(backend, creq[r].id)
            /\ creq' = Step(r, "drop_user")
       ELSE /\ UNCHANGED backend
            /\ creq' = [Step(r, "rollback") EXCEPT
                            ![r].unwind_failure = "drop_database"]
    /\ UNCHANGED <<tenants, bus, rlVars, gwVars>>

(* cursor.execute(DROP USER IF EXISTS ...); then raise *)
DropUser(r, ok) ==
    /\ creq[r].pc = "drop_user"
    /\ IF ok
       THEN /\ backend' = DropUserIfExists(backend, creq[r].id)
            /\ creq' = Step(r, "rollback")
       ELSE /\ UNCHANGED backend
            /\ creq' = [Step(r, "rollback") EXCEPT ![r].unwind_failure = "drop_user"]
    /\ UNCHANGED <<tenants, bus, rlVars, gwVars>>

(* run_migrations(db_tenant): print the tenant, build the environment and *)
(* print it, then alembic upgrade head, or CalledProcessError              *)
RunMigrations(r, ok) ==
    /\ creq[r].pc = "migrate"
    /\ IF ok
       THEN /\ backend' = [backend EXCEPT !.migrated = @ \cup {creq[r].id}]
            /\ creq' = [Step(r, "publish_service") EXCEPT
                            ![r].console = @ \cup {LineRunning(r), LineEnv(r),
                                                   LineCompleted(r)}]
       ELSE /\ UNCHANGED backend
            /\ creq' = [Step(r, "rollback") EXCEPT
                            ![r].raised = "migrations",
                            ![r].console = @ \cup
                                {LineRunning(r), LineEnv(r),
                                 Line("migration_error", {"migrations"})}]
    /\ UNCHANGED <<tenants, bus, rlVars, gwVars>>

(* tenant_service.create_tenant, except Exception as e: db.delete(db_tenant); *)
(* db.commit(); raise HTTPException(500, detail = ... str(e))                 *)
RollbackTenant(r) ==
    /\ creq[r].pc = "rollback"
    /\ tenants' = {t \in tenants : t.id # creq[r].id}
    /\ creq' = [Step(r, "done") EXCEPT ![r].status = 500,
                                       ![r].detail = {creq[r].raised}]
    /\ UNCHANGED <<backend, bus, rlVars, gwVars>>

(* Mutant: the exception of publish_event leaves the handler. *)
on_publish_failure_Raise(c, site) ==
    [c EXCEPT !.pc = "done", !.status = 500, !.raised = "publish",
              !.publish_failed = @ \cup {site}]

(* except Exception as e: print(f"Failed to publish ...: {str(e)}"), and *)
(* the function goes on to its return                                    *)
on_publish_failure(c, site) ==
    [c EXCEPT !.console = @ \cup {Line("publish_error", {site})},
              !.publish_failed = @ \cup {site}]

(* RabbitMQClient.publish_event: basic_publish on the tenant_events exchange *)
(* with routing key event_type, or an exception                              *)
publish_event(b, event_type, tenant_id, site) ==
    b \cup {[event_type |-> event_type, tenant_id |-> tenant_id, by |-> site]}

(* tenant_service.create_tenant: publish_event("tenant.created", ...), *)
(* a failure is printed and dropped                                     *)
PublishFromService(r, ok) ==
    /\ creq[r].pc = "publish_service"
    /\ bus' = IF ok
              THEN publish_event(bus, "tenant.created", creq[r].id, "tenant_service")
              ELSE bus
    /\ LET after == Step(r, "publish_main")
       IN  creq' = IF ok
                   THEN [after EXCEPT ![r].console = @ \cup {LinePublished}]
                   ELSE [after EXCEPT ![r] = on_publish_failure(@, "tenant_service")]
    /\ UNCHANGED <<tenants, backend, rlVars, gwVars>>

(* main.create_tenant: publish_event(EventType.TENANT_CREATED, ...), then *)
(* return new_tenant (201)                                                *)
PublishFromMain(r, ok) ==
    /\ creq[r].pc = "publish_main"
    /\ bus' = IF ok
              THEN publish_event(bus, "tenant.created", creq[r].id, "main")
              ELSE bus
    /\ LET after == [Step(r, "done") EXCEPT ![r].status = 201]
       IN  creq' = IF ok
                   THEN [after EXCEPT ![r].console = @ \cup {LinePublished}]
                   ELSE [after EXCEPT ![r] = on_publish_failure(@, "main")]
    /\ UNCHANGED <<tenants, backend, rlVars, gwVars>>

NextTenant ==
    \/ \E r \in CreateRequests, s \in Subdomains : PostTenant(r, s)
    \/ \E r \in CreateRequests : CheckSubdomain(r)
    \/ \E r \in CreateRequests : CheckSubdomainService(r)
    \/ \E r \in CreateRequests : InsertTenant(r)
    \/ \E r \in CreateRequests, ok \in BOOLEAN : AdminConnect(r, ok)
    \/ \E r \in CreateRequests, ok \in BOOLEAN : CreateDatabase(r, ok)
    \/ \E r \in CreateRequests, ok \in BOOLEAN : CreateUser(r, ok)
    \/ \E r \in CreateRequests, ok \in BOOLEAN : Grant(r, ok)
    \/ \E r \in CreateRequests, ok \in BOOLEAN : DropDatabase(r, ok)
    \/ \E r \in CreateRequests, ok \in BOOLEAN : DropUser(r, ok)
    \/ \E r \in CreateRequests, ok \in BOOLEAN : RunMigrations(r, ok)
    \/ \E r \in CreateRequests : RollbackTenant(r)
    \/ \E r \in CreateRequests, ok \in BOOLEAN : PublishFromService(r, ok)
    \/ \E r \in CreateRequests, ok \in BOOLEAN : PublishFromMain(r, ok)


(***************************************************************************)
(* Properties                                                              *)
(***************************************************************************)

(* Indices of the calls permitted for client c with lo < time <= hi *)
PermittedWithin(c, lo, hi) ==
    {i \in DOMAIN calls :
        /\ calls[i].client = c
        /\ calls[i].allowed
        /\ lo < calls[i].time
        /\ calls[i].time <= hi}

(* Instants recorded for the client of call i before it and not yet a    *)
(* whole window old when call i is made                                   *)
RetainedBefore(i) ==
    Cardinality({j \in 1 .. (i - 1) :
        /\ calls[j].client = calls[i].client
        /\ calls[j].allowed
        /\ calls[j].time > calls[i].time - window_seconds})

(* C1: for every client and ceiling, after any sequence of calls at       *)
(* non-decreasing times, the calls the in-memory limiter permitted for    *)
(* the client inside any trailing window (t - window_seconds, t] number   *)
(* at most the ceiling; and a call made while the ceiling's worth of      *)
(* instants is retained in the window is denied.                          *)
C1_WindowCeiling ==
    /\ \A c \in Clients, t \in Times :
          Cardinality(PermittedWithin(c, t - window_seconds, t)) <= max_requests
    /\ \A i \in DOMAIN calls :
          RetainedBefore(i) >= max_requests => ~calls[i].allowed

(* A call was denied with exactly the ceiling's worth of instants retained. *)
C1_Witness ==
    \E i \in DOMAIN calls :
        ~calls[i].allowed /\ RetainedBefore(i) = max_requests

(* C2: two concurrent check_rate_limit calls for one client key that both *)
(* start with exactly one unit of capacity left are never both permitted. *)
C2_AtomicPerKey ==
    \A i, j \in Instances :
        (/\ i # j
         /\ inst[i].pc = "done" /\ inst[j].pc = "done"
         /\ inst[i].client = inst[j].client
         /\ inst[i].overlapped /\ inst[j].overlapped
         /\ inst[i].free = 1 /\ inst[j].free = 1)
        => ~(inst[i].allowed /\ inst[j].allowed)

Ip1Calls == SelectSeq(calls, LAMBDA e : e.client = "ip1")

ScenarioTimes == <<0, 1, 2, 3, 61>>

(* Ceiling 3, window 60, and the calls for ip1 were made at 0, 1, 2, 3, 61. *)
C3_Scenario ==
    /\ max_requests = 3
    /\ window_seconds = 60
    /\ [i \in DOMAIN Ip1Calls |-> Ip1Calls[i].time] = ScenarioTimes

(* C3: a call at time now with n instants retained (those later than      *)
(* now - window) returns (permitted, ceiling - (n + 1)) when n < ceiling  *)
(* and (denied, 0) otherwise; with ceiling 3 and window 60 the calls at   *)
(* 0, 1, 2 are permitted with 2, 1, 0 remaining, the call at 3 is denied  *)
(* and the call at 61 is permitted.                                       *)
C3_Decision ==
    /\ \A i \in DOMAIN calls :
          LET n == RetainedBefore(i)
          IN  IF n < max_requests
              THEN calls[i].allowed /\ calls[i].remaining = max_requests - (n + 1)
              ELSE ~calls[i].allowed /\ calls[i].remaining = 0
    /\ C3_Scenario =>
          /\ [i \in 1 .. 4 |-> <<Ip1Calls[i].allowed, Ip1Calls[i].remaining>>]
                = <<<<TRUE, 2>>, <<TRUE, 1>>, <<TRUE, 0>>, <<FALSE, 0>>>>
          /\ Ip1Calls[5].allowed

C3_Witness == C3_Scenario

(* C4: for every sequence of sequential calls, two calls with the same    *)
(* timestamp included, the in-memory limiter and the Redis limiter return *)
(* the same (permitted, remaining) for every call.                        *)
C4_SameResults ==
    \A i \in DOMAIN calls :
        /\ calls[i].allowed = calls[i].shared_allowed
        /\ calls[i].remaining = calls[i].shared_remaining

(* Place of a stage in the order logging, rate limit, tenant resolution,  *)
(* route auth, forwarding                                                 *)
StageRank(stage) ==
    CASE stage = "logging" -> 1
      [] stage = "ratelimit" -> 2
      [] stage = "tenant" -> 3
      [] stage = "auth" -> 4
      [] stage = "forward" -> 5
      [] OTHER -> 0

(* C5: the stages run in the order logging, rate limit, tenant resolution, *)
(* route auth, forwarding, so a request the rate limiter answers with 429 *)
(* entered its stages in that order, has passed logging and caused no     *)
(* Directory lookup.                                                      *)
C5_PipelineOrder ==
    (gw.pc = "done" /\ gw.status = 429) =>
        /\ \A i, j \in DOMAIN gw.entered :
              (i < j /\ StageRank(gw.entered[i]) # 0 /\ StageRank(gw.entered[j]) # 0)
                  => StageRank(gw.entered[i]) < StageRank(gw.entered[j])
        /\ \E i \in DOMAIN gw.entered : gw.entered[i] = "logging"
        /\ gw.dir_calls = 0

(* C6: every Tenant row in the Directory belongs to a tenant whose        *)
(* database, role, grant and migrations are all in place.                 *)
C6_RecordAfterProvisioning ==
    \A t \in tenants :
        /\ t.id \in backend.databases
        /\ t.id \in backend.users
        /\ t.id \in backend.grants
        /\ t.id \in backend.migrated

(* C7: when create-tenant has returned its failure after migrations       *)
(* failed, the tenant's database and role are gone from the backend and   *)
(* the Directory holds no row for the tenant.                             *)
C7_MigrationFailureUnwinds ==
    \A r \in CreateRequests :
        (creq[r].pc = "done" /\ creq[r].raised = "migrations") =>
            /\ creq[r].id \notin backend.databases
            /\ creq[r].id \notin backend.users
            /\ \A t \in tenants : t.id # creq[r].id

C9_UnwindFailureSurfaced ==
    \A r \in CreateRequests :
        (creq[r].pc = "done" /\ creq[r].unwind_failure # "none") =>
            /\ creq[r].raised \in creq[r].detail
            /\ creq[r].unwind_failure \in creq[r].detail

ProvisioningSteps ==
    {"connect", "create_database", "create_user", "grant", "migrate"}

(* C10: a create-tenant request for a subdomain that equals, ignoring     *)
(* case, the subdomain of a tenant already persisted is rejected with     *)
(* 409, runs no provisioning step and adds no second row.                 *)
C10_DuplicateRejected ==
    /\ \A r \in CreateRequests :
          creq[r].prior_dup =>
              /\ creq[r].pc = "done" => creq[r].status = 409
              /\ creq[r].steps \cap ProvisioningSteps = {}
              /\ \A t \in tenants : t.req # r

(* C11: of two create-tenant requests for the same subdomain, whatever   *)
(* their interleaving, no two rows ever share the subdomain, and when one *)
(* has ended Persisted (201) the other, unless its own provisioning       *)
(* failed, has ended with 409 and has run no provisioning step.           *)
C11_ConcurrentCreates ==
    /\ \A t1, t2 \in tenants : t1.subdomain = t2.subdomain => t1 = t2
    /\ \A r1, r2 \in CreateRequests :
          (/\ r1 # r2
           /\ creq[r1].pc = "done" /\ creq[r2].pc = "done"
           /\ creq[r1].subdomain = creq[r2].subdomain
           /\ creq[r1].status = 201
           /\ creq[r2].raised \in {"none", "integrity"})
          => /\ creq[r2].status = 409
             /\ creq[r2].steps \cap ProvisioningSteps = {}

(* Requests the resolver has acted on, on a path it does not exempt *)
Entered(stage) == \E i \in DOMAIN gw.entered : gw.entered[i] = stage
ResolvedPath == gw.path \in {PathUsers, PathTenants, PathRoles, PathOther}

(* C12: on a path that is not exempt, a request with a non-empty          *)
(* X-Tenant-ID header gets exactly that value as tenant context, and no   *)
(* Directory call is made, whatever subdomain the host carries.           *)
C12_ExplicitHeaderWins ==
    (Entered("tenant") /\ ResolvedPath
        /\ gw.tenant_header # None /\ gw.tenant_header[1] # "")
    => /\ gw.tenant_id = gw.tenant_header
       /\ gw.pc # "lookup"
       /\ gw.dir_calls = 0

(* A request with header t-42 on host acme.example.com, whose subdomain  *)
(* the Directory holds for another tenant, has passed the resolver.      *)
C12_Witness ==
    /\ Entered("tenant") /\ Entered("ratelimit") /\ ResolvedPath
    /\ gw.tenant_header = Some("t-42")
    /\ gw.host = HostAcme
    /\ \E t \in tenants : t.subdomain = SubAcme /\ t.id # "t-42"
    /\ gw.tenant_id = Some("t-42")

(* C13: once a lookup of subdomain s has succeeded, a later request with  *)
(* host subdomain s and no explicit header is resolved to the same tenant *)
(* id without a Directory call.                                           *)
C13_ResolvedFromCache ==
    \A l \in lookups :
        (/\ Entered("tenant") /\ ResolvedPath
         /\ ~(gw.tenant_header # None /\ gw.tenant_header[1] # "")
         /\ gw.subdomain = Some(l[1])
         /\ gw.dir_calls = 0)
        => /\ gw.pc # "lookup"
           /\ gw.tenant_id = Some(l[2])

(* C14: a lookup that fails (network error, non-200 status, a 200 whose   *)
(* body is malformed or lacks tenant_id) leaves the request without       *)
(* tenant context and passes it on; nothing is raised to the caller.      *)
C14_LookupFailureUnresolved ==
    gw.lookup \in {"network_error", "non_200", "malformed", "no_tenant_id"}
    => /\ gw.tenant_id = None
       /\ gw.raised = "none"
       /\ Entered("ratelimit") \/ (gw.pc = "mw" /\ gw.depth = 2)

(* C15: when the Tenant Directory of this repository holds a tenant with  *)
(* subdomain s and the gateway's lookup of s reaches it, the request is   *)
(* resolved to that tenant's id.                                          *)
C15_DirectoryResolves ==
    (/\ tenant_resolver_url = RepoDirectory
     /\ gw.lookup \notin {"none", "network_error"})
    => \A t \in tenants :
           t.subdomain = gw.subdomain[1]
           => /\ gw.lookup = "ok"
              /\ gw.tenant_id = Some(t.id)

(* The subdomain of a host, read off the text: the part before the first *)
(* ':' has at least two dots, and the label is what precedes the first.   *)
BeforeFirst(s, ch) ==
    IF \E i \in DOMAIN s : s[i] = ch
    THEN SubSeq(s, 1, (CHOOSE i \in DOMAIN s :
                          s[i] = ch /\ \A j \in 1 .. (i - 1) : s[j] # ch) - 1)
    ELSE s
ExpectedSubdomain(host) ==
    LET h == BeforeFirst(host, ":")
    IN  IF Cardinality({i \in DOMAIN h : h[i] = "."}) >= 2
        THEN Some(BeforeFirst(h, "."))
        ELSE None

(* C16: extract_subdomain gives the first label of a host with at least   *)
(* three labels (the port set aside) and nothing otherwise:               *)
(* 'acme.example.com' gives 'acme', 'example.com' gives none; with no     *)
(* subdomain and no explicit header the request stays unresolved and no   *)
(* Directory call is made.                                                *)
C16_SubdomainExtraction ==
    /\ \A host \in AllHosts : extract_subdomain(host) = ExpectedSubdomain(host)
    /\ extract_subdomain(HostAcme) = Some(SubAcme)
    /\ extract_subdomain(HostBare) = None
    /\ (/\ Entered("tenant") /\ ResolvedPath
        /\ ~(gw.tenant_header # None /\ gw.tenant_header[1] # "")
        /\ ExpectedSubdomain(gw.host) = None)
       => /\ gw.pc # "lookup"
          /\ gw.dir_calls = 0
          /\ gw.lookup = "none"
          /\ gw.tenant_id = None

(* A request for example.com without tenant header has passed the        *)
(* resolver and been handed on.                                           *)
C16_Witness ==
    /\ Entered("tenant") /\ Entered("ratelimit") /\ ResolvedPath
    /\ gw.tenant_header = None
    /\ gw.host = HostBare
    /\ gw.tenant_id = None

(* Values the upstream receives under the tenant header name *)
ForwardedTenantValues ==
    {h[2] : h \in {x \in gw.outbound : Lower(x[1]) = Lower(TenantHeaderName)}}

(* C17: a forwarded request for which tenant context was established     *)
(* carries the resolved tenant id as its only tenant-header value.        *)
C17_ForwardedTenantHeader ==
    (Entered("forward") /\ gw.body_read /\ gw.tenant_id # None)
    => ForwardedTenantValues = {gw.tenant_id[1]}

(* C18: forward for a service name the registry does not hold fails with  *)
(* 503 before the body is read and without an outbound call.              *)
C18_UnregisteredService ==
    (Entered("forward") /\ ~gw.service_known)
    => /\ gw.pc = "done"
       /\ gw.status = 503
       /\ gw.upstream_calls = 0
       /\ ~gw.body_read
       /\ gw.outbound = {}

(* forward has answered 503 for user-management, which was unregistered *)
C18_Witness ==
    /\ Entered("forward") /\ ~gw.service_known
    /\ "user-management" \notin DOMAIN services
    /\ gw.status = 503

(* C19 as stated: a failed upstream call gives 503, one invocation of     *)
(* forward starts at most one upstream request, and the status of the     *)
(* upstream's answer is relayed unchanged.                                *)
C19_AtMostOneRequest ==
    Entered("forward")
    => /\ gw.upstream_calls <= 1
       /\ gw.upstream_failed => (gw.pc = "done" /\ gw.status = 503)
       /\ (gw.upstream_calls > 0 /\ ~gw.upstream_failed /\ gw.pc = "done")
              => gw.status = gw.upstream_status

(* C19, amended: a failed upstream request ends forward with 503 and no   *)
(* request follows it; a request after the first is sent only to follow a *)
(* redirect answer, at most MaxRedirects times; the status relayed is     *)
(* that of the last answer unless that answer is one redirect too many,   *)
(* which gives 503.                                                       *)
C19_NoRetryAfterFailure ==
    (Entered("forward") /\ gw.body_read)
    => /\ gw.upstream_failed => (gw.pc = "done" /\ gw.status = 503)
       /\ gw.upstream_calls = gw.redirects + (IF gw.pc = "done" THEN 1 ELSE 0)
       /\ gw.redirects <= MaxRedirects
       /\ (gw.upstream_calls > 0 /\ ~gw.upstream_failed /\ gw.pc = "done")
              => gw.status = IF gw.upstream_status = RedirectStatus
                             THEN 503 ELSE gw.upstream_status

(* The second request of one forward, sent to follow a redirect, failed *)
(* on the network.                                                      *)
C19_Witness ==
    /\ Entered("forward") /\ gw.upstream_failed
    /\ gw.redirects = 1 /\ gw.upstream_calls = 2
    /\ gw.status = 503

(* C20: the registry holds exactly the names registered and not           *)
(* unregistered since; get_service_url returns an address for those names *)
(* and None for every other, list_services returns exactly those names.   *)
C20_RegistryConsistent ==
    /\ DOMAIN services = registered
    /\ registry_out.op = "get"
          => (registry_out.url # None <=> registry_out.name \in registered)
    /\ registry_out.op = "list" => registry_out.names = registered

(* get_service_url of a name that was registered at startup and then *)
(* unregistered has returned None, another name being registered.    *)
C20_Witness ==
    /\ registry_out.op = "get"
    /\ registry_out.name = "user-management"
    /\ registry_out.url = None
    /\ "billing" \in registered

(* C21: get_service_url(n) of a registered name returns exactly the      *)
(* address of the most recent register_service(n, .), whatever was        *)
(* registered or unregistered under other names in between.               *)
C21_LastWriterWins ==
    /\ \A a \in last_address :
          a[1] \in DOMAIN services /\ services[a[1]] = a[2]
    /\ registry_out.op = "get"
          => \A a \in last_address :
                a[1] = registry_out.name => registry_out.url = Some(a[2])

(* user-management was registered again under the other address, billing *)
(* was registered too, and get_service_url returned the newer address.   *)
C21_Witness ==
    /\ registry_out.op = "get"
    /\ registry_out.name = "user-management"
    /\ registry_out.url = Some(StartupServices["tenant-resolver"])
    /\ "billing" \in DOMAIN services

(* C22: when the shared store is configured but unreachable at startup,  *)
(* the gateway runs the local in-memory limiter, and no request on a path *)
(* that is rate limited fails because the shared store is unreachable.    *)
C22_FallbackToLocal ==
    (/\ startup.use_redis /\ ~startup.redis_reachable
     /\ Entered("ratelimit") /\ gw.path # PathHealth)
    => /\ limiter = "memory"
       /\ gw.raised # "ConnectionError"

(* An Authorization value that is missing or is not 'Bearer <token>' *)
NotBearerToken(authorization) ==
    \/ authorization = None
    \/ Len(authorization[1]) # 2
    \/ Lower(authorization[1][1]) # <<"b", "e", "a", "r", "e", "r">>

(* C23: on a token-protected route, a request whose Authorization header  *)
(* is missing or is not 'Bearer <token>' is answered 401 with the header  *)
(* WWW-Authenticate and is not forwarded.                                 *)
C23_MalformedAuthorization ==
    (Entered("auth") /\ NotBearerToken(gw.authorization))
    => /\ gw.pc = "done"
       /\ gw.status = 401
       /\ "WWW-Authenticate" \in gw.response_headers
       /\ ~Entered("forward")
       /\ gw.upstream_calls = 0

(* C24: on a token-protected route, a signed and unexpired token without  *)
(* subject is refused with 401 and not forwarded; one with a subject and  *)
(* without tenant identifier is accepted.                                 *)
C24_SubjectRequired ==
    /\ (Entered("auth") /\ gw.authorization = Some(<<SchemeBearer, "nosub">>))
       => /\ gw.pc = "done"
          /\ gw.status = 401
          /\ ~Entered("forward")
    /\ (Entered("auth") /\ gw.authorization = Some(<<SchemeBearer, "notenant">>))
       => /\ Entered("forward")
          /\ gw.status # 401

(* C29: an upstream call for a request on /api/users, /api/tenants or     *)
(* /api/roles is made only when the request carried a bearer token that   *)
(* is signed and not expired.                                             *)
C29_TokenBeforeUpstream ==
    (/\ gw.path \in {PathUsers, PathTenants, PathRoles}
     /\ gw.pc = "upstream" \/ gw.upstream_calls > 0)
    => /\ ~NotBearerToken(gw.authorization)
       /\ gw.authorization[1][2] \in {"good", "nosub", "notenant"}

(* C27: on a health-check path, an authentication endpoint or the bare   *)
(* root, the resolver sets no tenant context and makes no Directory call, *)
(* whatever header and host the request carries.                          *)
C27_ExemptPaths ==
    (gw.pc # "idle" /\ gw.path \in {PathHealth, PathAuth, PathRoot})
    => /\ gw.tenant_id = None
       /\ gw.pc # "lookup"
       /\ gw.dir_calls = 0
       /\ gw.lookup = "none"

(* A request for /api/auth/x with header t-42 and host acme.example.com *)
(* has been handed on by the resolver.                                   *)
C27_Witness ==
    /\ Entered("tenant") /\ Entered("ratelimit")
    /\ gw.path = PathAuth
    /\ gw.tenant_header = Some("t-42")
    /\ gw.host = HostAcme
    /\ gw.tenant_id = None

(* The instants the log says were admitted for client c, oldest first *)
AdmittedTimes(c) ==
    LET admitted == SelectSeq(calls, LAMBDA e : e.client = c /\ e.allowed)
    IN  [i \in DOMAIN admitted |-> admitted[i].time]
LastCallTime(c) ==
    LET mine == SelectSeq(calls, LAMBDA e : e.client = c)
    IN  mine[Len(mine)].time

(* One check_rate_limit call: what it may change *)
DeniedCallFrame ==
    Len(calls') = Len(calls) + 1
    => LET e == calls'[Len(calls')]
           window_start == e.time - window_seconds
       IN  /\ \A o \in Clients \ {e.client} :
                 requests'[o] = requests[o] /\ store'[o] = store[o]
           /\ ~e.allowed
                 => requests'[e.client] =
                        SelectSeq(requests[e.client], LAMBDA ts : ts > window_start)
           /\ ~e.shared_allowed
                 => store'[e.client].members =
                        {m \in store[e.client].members : m.score > window_start}

(* C28: a denied call adds no instant: it changes the client's window     *)
(* only by dropping expired instants and never touches another client's;  *)
(* so the in-memory window always holds exactly the admitted instants     *)
(* still inside the window of the client's last call, and the client is   *)
(* admitted again once fewer than the ceiling remain.                     *)
C28_DeniedCallFrame ==
    /\ [][DeniedCallFrame]_vars
    /\ [](\A c \in Clients :
            (\E i \in DOMAIN calls : calls[i].client = c)
            => requests[c] =
                   SelectSeq(AdmittedTimes(c),
                             LAMBDA ts : ts > LastCallTime(c) - window_seconds))

(* ip1 was admitted, then denied, then admitted again, while ip2 holds an *)
(* admitted instant of its own.                                           *)
C28_Witness ==
    /\ \E i, j, k \in DOMAIN calls :
          /\ i < j /\ j < k
          /\ calls[i].client = "ip1" /\ calls[j].client = "ip1"
          /\ calls[k].client = "ip1"
          /\ calls[i].allowed /\ ~calls[j].allowed /\ calls[k].allowed
          /\ ~calls[j].shared_allowed
    /\ requests["ip2"] # <<>>

(* C25: no line written to the console during tenant creation,          *)
(* provisioning or migration, successful or failed, contains a tenant's  *)
(* generated database password.                                          *)
C25_SecretNeverLogged ==
    \A r \in CreateRequests : \A l \in creq[r].console :
        \A q \in CreateRequests : db_password(q) \notin l.text

(* C26: a create request during which a publish of the tenant-created    *)
(* notification failed still ends with 201, its Tenant row persisted and *)
(* its database, role, grant and migrations in place.                    *)
C26_PublishBestEffort ==
    \A r \in CreateRequests :
        (creq[r].pc = "done" /\ creq[r].publish_failed # {})
        => /\ creq[r].status = 201
           /\ \E t \in tenants : t.id = creq[r].id /\ t.req = r
           /\ creq[r].id \in backend.databases
           /\ creq[r].id \in backend.users
           /\ creq[r].id \in backend.grants
           /\ creq[r].id \in backend.migrated

(* Both publishes of a create request failed and the request has returned. *)
C26_Witness ==
    \E r \in CreateRequests :
        /\ creq[r].pc = "done"
        /\ creq[r].publish_failed = {"tenant_service", "main"}
        /\ creq[r].status = 201
        /\ \A e \in bus : e.tenant_id # creq[r].id

(* C30: a create request that ended with 201 and saw no publish failure *)
(* has put exactly one tenant-created notification for its tenant on    *)
(* the bus.                                                             *)
C30_PublishedExactlyOnce ==
    \A r \in CreateRequests :
        (creq[r].pc = "done" /\ creq[r].status = 201
            /\ creq[r].publish_failed = {})
        => Cardinality({e \in bus : e.event_type = "tenant.created"
                                    /\ e.tenant_id = creq[r].id}) = 1

(***************************************************************************)
(* Specifications                                                          *)
(***************************************************************************)
(* The limiter as the gateway is configured to run it *)
RLConfig(windows, ceilings, startups) ==
    /\ window_seconds \in windows
    /\ max_requests \in ceilings
    /\ startup \in startups
    /\ limiter = rate_limiter_init(startup)

InitRateLimit ==
    /\ RLConfig(Windows, Ceilings, {LocalStartup}) /\ RLInit /\ GWInit /\ TDInit
    /\ tenant_resolver_url = RepoDirectory
InitGateway ==
    /\ RLConfig({DefaultWindowSeconds}, 1 .. 2, {LocalStartup, RedisDownStartup, RedisUpStartup})
    /\ RLInit /\ GWInit /\ TDInit
    /\ tenant_resolver_url = RepoDirectory
InitTenant ==
    /\ RLConfig({DefaultWindowSeconds}, {MaxCeiling}, {LocalStartup})
    /\ RLInit /\ GWInit /\ TDInit
    /\ tenant_resolver_url = RepoDirectory
InitRegistry == InitTenant
InitResolver ==
    /\ RLConfig({DefaultWindowSeconds}, {2}, {LocalStartup})
    /\ RLInit /\ GWInit /\ SeededDirectory
    /\ tenant_resolver_url \in {RepoDirectory, OtherDirectory}

SpecRateLimit == InitRateLimit /\ [][NextRateLimit]_vars
SpecShared == InitRateLimit /\ [][NextShared]_vars
SpecGateway == InitGateway /\ [][NextGateway]_vars
SpecTenant == InitTenant /\ [][NextTenant]_vars
SpecRegistry == InitRegistry /\ [][NextRegistry]_vars
SpecResolver == InitResolver /\ [][NextResolver]_vars
====
